---- MODULE Spec2Model ----
(***************************************************************************)
(* A model of src/src/exceptions-wrapper.cpp: the extern "C" functions     *)
(* cpp_try, cpp_throw_rust, cpp_throw_test_exception, cpp_rethrow,         *)
(* cpp_exception_what and cpp_exception_destroy, the three box classes     *)
(* derived from NativeCppException, and the C++ exception machinery they   *)
(* use (throw, catch-clause selection, std::exception_ptr).                *)
(*                                                                         *)
(* The foreign caller is the environment.  It calls cpp_try; the callback  *)
(* it supplies may call any exported function (cpp_try included, nested),  *)
(* throw a value that is not derived from std::exception, or return.       *)
(* Box pointers handed to the exported functions are pointers to live      *)
(* boxes, and the raising functions are called inside a cpp_try callback.  *)
(* A new-expression either delivers a free address or fails with           *)
(* std::bad_alloc; it fails when no address is left.  A std::string longer  *)
(* than its local buffer allocates too, and that allocation can fail.      *)
(***************************************************************************)
EXTENDS Naturals, Sequences, FiniteSets

\* ------------------------------------------------------------------ bounds
MaxChar ==
    1
MaxMsgLen ==
    1
MaxBoxes ==
    2
MaxDepth ==
    2

\* ------------------------------------------------------------- data types
\* A machine word of a FakeTraitObject supplied by the foreign side: null or
\* not.  The code copies the words and never interprets them.
Words == {0, 1}

\* struct FakeTraitObject { void* p0; void* p1; }
FakeTraitObject == [p0 : Words, p1 : Words]

\* FakeTraitObject fto = {0};  p0 = 0 and p1 is value-initialised.
ZeroFto == [p0 |-> 0, p1 |-> 0]

\* Heap addresses operator new can return for a box (never null).
Addrs == 1..MaxBoxes

BoundedSeq(S, n) == UNION {[1..k -> S] : k \in 0..n}

\* The characters a std::string holds in its local buffer, without
\* allocating (libstdc++).
SsoCapacity ==
    15

\* const char* arguments: the bytes at the pointer, up to the first NUL.
ShortBuffers ==
    {b \in BoundedSeq(0..MaxChar, MaxMsgLen + 1) :
        /\ Len(b) > 0
        /\ \A i \in 1..Len(b) : (b[i] = 0) <=> (i = Len(b))}

\* A message one character too long for the local buffer of a std::string.
LongBuffers ==
    {[i \in 1..(SsoCapacity + 2) |-> IF i = SsoCapacity + 2 THEN 0 ELSE 1]}

CBuffers == ShortBuffers \cup LongBuffers

\* Constructing a std::string with the characters s calls operator new.
StringAllocates(s) == Len(s) > SsoCapacity

\* std::string(const char*): the bytes before the first NUL.
StrFromC(buf) ==
    LET n == CHOOSE i \in 1..Len(buf) :
                 buf[i] = 0 /\ \A j \in 1..(i - 1) : buf[j] # 0
    IN  SubSeq(buf, 1, n - 1)

\* std::string::c_str(): the characters followed by a NUL.
c_str(s) == Append(s, 0)

\* The string literal "<rust exception>" (ASCII, NUL-terminated).
RustWhat ==
    <<60, 114, 117, 115, 116, 32, 101, 120, 99, 101, 112, 116, 105, 111, 110,
      62, 0>>

\* The string literal "<unknown exception>" (ASCII, NUL-terminated).
UnknownWhat ==
    <<60, 117, 110, 107, 110, 111, 119, 110, 32, 101, 120, 99, 101, 112, 116,
      105, 111, 110, 62, 0>>

\* Dynamic types of thrown values that neither are a FakeTraitObject nor
\* derive from std::exception (throw 42; throw "text";).
OtherTypes == {"int", "const char*"}

\* ------------------------------------------------------ exception objects
NoExc == [type |-> "none", fto |-> ZeroFto, msg |-> <<>>]

\* throw fto;
CarrierExc(h) == [type |-> "FakeTraitObject", fto |-> h, msg |-> <<>>]

\* TestException(std::string msg) : msg(std::move(msg))
TestException(message) ==
    [type |-> "TestException", fto |-> ZeroFto, msg |-> StrFromC(message)]

OtherExc(t) == [type |-> t, fto |-> ZeroFto, msg |-> <<>>]

\* The characters of "std::bad_alloc", the what() string of std::bad_alloc.
BadAllocWhat ==
    <<115, 116, 100, 58, 58, 98, 97, 100, 95, 97, 108, 108, 111, 99>>

\* The std::bad_alloc a failing new-expression throws.
BadAlloc == [type |-> "std::bad_alloc", fto |-> ZeroFto, msg |-> BadAllocWhat]

\* TestException and std::bad_alloc derive from std::exception.
IsStdException(e) == e.type \in {"TestException", "std::bad_alloc"}

\* std::exception::what(): TestException's msg.c_str(), the string of
\* std::bad_alloc.
exception_what(e) == c_str(e.msg)

\* ------------------------------------------------------------------ boxes
\* A box is one object of a class derived from NativeCppException.  ptr is
\* the std::exception_ptr member (StandardException::ptr,
\* UnknownException::exception), message is StandardException::message and
\* fto is RustExceptionAsCppException::exception.  A std::exception_ptr is
\* modelled by the exception object it shares ownership of (NoExc: the null
\* exception_ptr); a thrown object is never modified, and it lives as long
\* as an exception_ptr refers to it.
NoBox == [kind |-> "free", ptr |-> NoExc, message |-> <<>>, fto |-> ZeroFto]

RustExceptionAsCppException(ex) ==
    [kind |-> "RustExceptionAsCppException", ptr |-> NoExc, message |-> <<>>,
     fto |-> ex]

UnknownException(ex) ==
    [kind |-> "UnknownException", ptr |-> ex, message |-> <<>>,
     fto |-> ZeroFto]

StandardException(ptr, ex) ==
    [kind |-> "StandardException", ptr |-> ptr,
     message |-> StrFromC(exception_what(ex)), fto |-> ZeroFto]

NativeKinds == {"StandardException", "UnknownException"}

\* NativeCppException::what() of each class, as the NUL-terminated bytes at
\* the returned pointer.
what(box) ==
    IF box.kind = "RustExceptionAsCppException" THEN RustWhat
    ELSE IF box.kind = "UnknownException" THEN UnknownWhat
    ELSE c_str(box.message)

\* get_exception_ptr() whose RustExceptionAsCppException answer is a null
\* std::exception_ptr, with no assertion.
get_exception_ptr_no_assert(box) ==
    [aborts |-> FALSE, ptr |-> box.ptr]

\* NativeCppException::get_exception_ptr() of each class.  The assert(false)
\* of RustExceptionAsCppException ends the process (assert is <cassert>'s and
\* the source does not define NDEBUG).
get_exception_ptr(box) ==
    IF box.kind = "RustExceptionAsCppException"
    THEN [aborts |-> TRUE, ptr |-> NoExc]
    ELSE [aborts |-> FALSE, ptr |-> box.ptr]

\* ------------------------------------------------------------------ state
VARIABLES
    heap,      \* Addrs -> the box allocated at the address, or NoBox
    inflight,  \* the exception object being unwound (NoExc: none)
    pc,        \* "run", "unwind" (an exception is propagating) or "abort"
    stack,     \* the active cpp_try calls, innermost last
    call       \* the last call of an exported function and its outcome

vars == <<heap, inflight, pc, stack, call>>

\* One cpp_try activation: fto is the local, flag the value at *caught_rust
\* and flag0 the value *caught_rust had when cpp_try was called.
Frame(f0) == [fto |-> ZeroFto, flag |-> f0, flag0 |-> f0]

\* The record of a call: fn and out name the function and how it ended; box,
\* h and buf are its argument; result is the string cpp_exception_what
\* returned; exc is the type of the exception cpp_throw_test_exception
\* raised.  For a cpp_try that has ended, by/box/h/buf are the call that
\* raised in its callback, kind the catch clause taken, ret the returned
\* handle, flag and flag0 the value at *caught_rust after and before the
\* call, nalloc the boxes it allocated and chain the number of cpp_try calls
\* that captured this handle in direct succession.
Ev0 ==
    [fn |-> "none", out |-> "none", box |-> 0, h |-> ZeroFto, buf |-> <<>>,
     by |-> "none", kind |-> "none", ret |-> ZeroFto, flag |-> FALSE,
     flag0 |-> FALSE, nalloc |-> 0, chain |-> 0, result |-> <<>>,
     exc |-> "none"]

Live(hp) == {a \in Addrs : hp[a] # NoBox}

FreeAddrs(hp) == Addrs \ Live(hp)

\* What a new-expression for a box can do: deliver a free address, or fail
\* (0) and throw std::bad_alloc.
NewOutcomes(hp) == FreeAddrs(hp) \cup {0}

\* throw e;
Throw(e) ==
    /\ inflight' = e
    /\ pc' = "unwind"

Init ==
    /\ heap = [a \in Addrs |-> NoBox]
    /\ inflight = NoExc
    /\ pc = "run"
    /\ stack = <<>>
    /\ call = Ev0

\* ---------------------------------------------------------------- cpp_try
\* The handlers of cpp_try.  frame is the activation, exception the object
\* caught, a the outcome of the handler's new-expression (an address, or 0:
\* it throws std::bad_alloc); std::current_exception() is the object
\* caught.  flag: the value stored to *caught_rust; fto: the local fto; box:
\* the box constructed at a (NoBox: none); thrown: the exception the handler
\* itself ends by (NoExc: it ends normally and cpp_try returns fto).

\* catch (FakeTraitObject& exception)
catch_FakeTraitObject(frame, exception) ==
    [kind |-> "carrier", flag |-> TRUE, fto |-> exception.fto,
     box |-> NoBox, thrown |-> NoExc]

\* catch (std::exception& exception).  The new-expression fails when
\* operator new does for the box or for the characters of its message.
catch_std_exception(frame, exception, a) ==
    IF a = 0
    THEN [kind |-> "std", flag |-> FALSE, fto |-> frame.fto, box |-> NoBox,
          thrown |-> BadAlloc]
    ELSE [kind |-> "std", flag |-> FALSE,
          fto |-> [frame.fto EXCEPT !.p0 = a],
          box |-> StandardException(exception, exception),
          thrown |-> NoExc]

\* catch (...)
catch_all(frame, exception, a) ==
    IF a = 0
    THEN [kind |-> "other", flag |-> FALSE, fto |-> frame.fto,
          box |-> NoBox, thrown |-> BadAlloc]
    ELSE [kind |-> "other", flag |-> FALSE,
          fto |-> [frame.fto EXCEPT !.p0 = a],
          box |-> UnknownException(exception), thrown |-> NoExc]

\* Catch whose FakeTraitObject handler copies p0 only.
CatchCopiesP0(frame, e, a) ==
    IF e.type = "FakeTraitObject"
    THEN [catch_FakeTraitObject(frame, e) EXCEPT
            !.fto = [frame.fto EXCEPT !.p0 = e.fto.p0]]
    ELSE IF IsStdException(e) THEN catch_std_exception(frame, e, a)
    ELSE catch_all(frame, e, a)

\* Catch whose FakeTraitObject handler boxes the handle.
CatchWrapsCarrier(frame, e, a) ==
    IF e.type = "FakeTraitObject"
    THEN IF a = 0
         THEN [catch_FakeTraitObject(frame, e) EXCEPT
                 !.fto = frame.fto, !.thrown = BadAlloc]
         ELSE [catch_FakeTraitObject(frame, e) EXCEPT
                 !.fto = [frame.fto EXCEPT !.p0 = a],
                 !.box = RustExceptionAsCppException(e.fto)]
    ELSE IF IsStdException(e) THEN catch_std_exception(frame, e, a)
    ELSE catch_all(frame, e, a)

\* The handler sequence of cpp_try: the first handler that matches the
\* dynamic type of e, in the order written.  The last one matches all.
Catch(frame, e, a) ==
    IF e.type = "FakeTraitObject" THEN catch_FakeTraitObject(frame, e)
    ELSE IF IsStdException(e) THEN catch_std_exception(frame, e, a)
    ELSE catch_all(frame, e, a)

\* cpp_try is entered: fto = {0}, then try_block(state) runs.  f0 is the
\* value the caller's *caught_rust holds.
cpp_try_call(f0) ==
    /\ pc = "run"
    /\ Len(stack) < MaxDepth
    /\ stack' = Append(stack, Frame(f0))
    /\ call' = [Ev0 EXCEPT !.fn = "cpp_try", !.out = "called", !.flag = f0,
                           !.flag0 = f0]
    /\ UNCHANGED <<heap, inflight, pc>>

\* try_block(state) returns: no handler runs and cpp_try returns fto.
cpp_try_return ==
    /\ pc = "run"
    /\ Len(stack) > 0
    /\ LET frame == stack[Len(stack)]
       IN  call' = [Ev0 EXCEPT !.fn = "cpp_try", !.out = "returned",
                               !.kind = "normal", !.ret = frame.fto,
                               !.flag = frame.flag, !.flag0 = frame.flag0]
    /\ stack' = SubSeq(stack, 1, Len(stack) - 1)
    /\ UNCHANGED <<heap, inflight, pc>>

\* try_block(state) raises: the matching handler runs.  It ends normally
\* and cpp_try returns fto, or its new-expression throws std::bad_alloc,
\* which destroys the exception caught and leaves cpp_try.
cpp_try_catch ==
    /\ pc = "unwind"
    /\ Len(stack) > 0
    /\ \E a \in NewOutcomes(heap) :
         LET frame == stack[Len(stack)]
             r     == Catch(frame, inflight, a)
             hp    == IF r.box = NoBox THEN heap ELSE [heap EXCEPT ![a] = r.box]
             ev    == [call EXCEPT
                         !.fn = "cpp_try", !.by = call.fn, !.kind = r.kind,
                         !.ret = r.fto, !.flag = r.flag,
                         !.flag0 = frame.flag0,
                         !.nalloc = Cardinality(Live(hp))
                                      - Cardinality(Live(heap)),
                         !.chain = IF r.kind = "carrier"
                                   THEN call.chain + 1 ELSE 0]
         IN  IF r.thrown = NoExc
             THEN /\ heap' = hp
                  /\ inflight' = NoExc
                  /\ pc' = "run"
                  /\ call' = [ev EXCEPT !.out = "returned"]
             ELSE /\ heap' = hp
                  /\ inflight' = r.thrown
                  /\ pc' = "unwind"
                  /\ call' = [ev EXCEPT !.out = "raised"]
    /\ stack' = SubSeq(stack, 1, Len(stack) - 1)

\* --------------------------------------------------------- raising calls
\* cpp_throw_rust(fto): throw fto;
cpp_throw_rust(fto) ==
    /\ pc = "run"
    /\ Len(stack) > 0
    /\ Throw(CarrierExc(fto))
    /\ call' = [Ev0 EXCEPT
                  !.fn = "cpp_throw_rust", !.out = "raised", !.h = fto,
                  !.chain = IF /\ call.fn = "cpp_try"
                               /\ call.out = "returned"
                               /\ call.kind = "carrier"
                               /\ call.ret = fto
                            THEN call.chain ELSE 0]
    /\ UNCHANGED <<heap, stack>>

\* cpp_throw_test_exception(message): throw TestException(message);  the
\* std::string argument of the constructor is built from message first, and
\* when that needs an allocation and the allocation fails, std::bad_alloc
\* is raised in place of the TestException.
cpp_throw_test_exception(message) ==
    /\ pc = "run"
    /\ Len(stack) > 0
    /\ \E e \in {TestException(message)}
               \cup (IF StringAllocates(StrFromC(message))
                     THEN {BadAlloc} ELSE {}) :
         /\ Throw(e)
         /\ call' = [Ev0 EXCEPT !.fn = "cpp_throw_test_exception",
                                !.out = "raised", !.buf = message,
                                !.exc = e.type]
    /\ UNCHANGED <<heap, stack>>

\* The callback itself throws a value of type t that is neither a
\* FakeTraitObject nor derived from std::exception.
callback_throw(t) ==
    /\ pc = "run"
    /\ Len(stack) > 0
    /\ Throw(OtherExc(t))
    /\ call' = [Ev0 EXCEPT !.fn = "callback_throw", !.out = "raised"]
    /\ UNCHANGED <<heap, stack>>

\* cpp_rethrow that deletes the box once it holds the exception_ptr.
cpp_rethrow_consumes(exception) ==
    /\ pc = "run"
    /\ Len(stack) > 0
    /\ exception \in Live(heap)
    /\ ~get_exception_ptr(heap[exception]).aborts
    /\ Throw(get_exception_ptr(heap[exception]).ptr)
    /\ heap' = [heap EXCEPT ![exception] = NoBox]
    /\ call' = [Ev0 EXCEPT !.fn = "cpp_rethrow", !.box = exception,
                           !.out = "raised"]
    /\ UNCHANGED stack

\* cpp_rethrow(exception): ex->get_exception_ptr(), then
\* std::rethrow_exception(exptr), which throws the object exptr refers to;
\* its behaviour is undefined for a null exptr.
cpp_rethrow(exception) ==
    /\ pc = "run"
    /\ Len(stack) > 0
    /\ exception \in Live(heap)
    /\ LET r  == get_exception_ptr(heap[exception])
           ev == [Ev0 EXCEPT !.fn = "cpp_rethrow", !.box = exception]
       IN  IF r.aborts
           THEN /\ pc' = "abort"
                /\ call' = [ev EXCEPT !.out = "aborted"]
                /\ UNCHANGED <<heap, inflight, stack>>
           ELSE IF r.ptr = NoExc
           THEN /\ \E o \in {"aborted", "returned"} :
                     /\ pc' = IF o = "aborted" THEN "abort" ELSE "run"
                     /\ call' = [ev EXCEPT !.out = o]
                /\ UNCHANGED <<heap, inflight, stack>>
           ELSE /\ Throw(r.ptr)
                /\ call' = [ev EXCEPT !.out = "raised"]
                /\ UNCHANGED <<heap, stack>>

\* ------------------------------------------------- inspection, destruction
\* cpp_exception_what(exception): ex->what()
cpp_exception_what(exception) ==
    /\ pc = "run"
    /\ exception \in Live(heap)
    /\ call' = [Ev0 EXCEPT !.fn = "cpp_exception_what", !.out = "returned",
                           !.box = exception,
                           !.result = what(heap[exception])]
    /\ UNCHANGED <<heap, inflight, pc, stack>>

\* cpp_exception_destroy(exception): delete ex;  the members are destroyed,
\* and with the last std::exception_ptr the exception object.
cpp_exception_destroy(exception) ==
    /\ pc = "run"
    /\ exception \in Live(heap)
    /\ heap' = [heap EXCEPT ![exception] = NoBox]
    /\ call' = [Ev0 EXCEPT !.fn = "cpp_exception_destroy",
                           !.out = "returned", !.box = exception]
    /\ UNCHANGED <<inflight, pc, stack>>

\* new RustExceptionAsCppException{ex}: the constructor run by code of the
\* translation unit; no exported function does.
new_RustExceptionAsCppException(ex) ==
    /\ pc = "run"
    /\ \E a \in FreeAddrs(heap) :
         /\ heap' = [heap EXCEPT ![a] = RustExceptionAsCppException(ex)]
         /\ call' = [Ev0 EXCEPT !.fn = "RustExceptionAsCppException",
                                !.out = "returned", !.box = a]
    /\ UNCHANGED <<inflight, pc, stack>>

\* ---------------------------------------------------------- specifications
Next ==
    \/ \E f0 \in BOOLEAN : cpp_try_call(f0)
    \/ cpp_try_return
    \/ cpp_try_catch
    \/ \E fto \in FakeTraitObject : cpp_throw_rust(fto)
    \/ \E message \in CBuffers : cpp_throw_test_exception(message)
    \/ \E t \in OtherTypes : callback_throw(t)
    \/ \E b \in Addrs : cpp_rethrow(b)
    \/ \E b \in Addrs : cpp_exception_what(b)
    \/ \E b \in Addrs : cpp_exception_destroy(b)

\* The exported functions, called by the foreign side.
Spec == Init /\ [][Next]_vars

NextWrap ==
    \/ Next
    \/ \E ex \in FakeTraitObject : new_RustExceptionAsCppException(ex)

\* The exported functions, and boxes of every class of the translation unit.
SpecWrap == Init /\ [][NextWrap]_vars

\* ----------------------------------------------------------------- claims
\* A cpp_try call has just ended, by returning or by an exception.
Ended == call.fn = "cpp_try" /\ call.out \in {"returned", "raised"}

\* A cpp_try call has just returned to its caller.
Returned == call.fn = "cpp_try" /\ call.out = "returned"

\* The box a handle's p0 points to, when it points to a live box.
BoxAt(fto) == IF fto.p0 \in Live(heap) THEN heap[fto.p0] ELSE NoBox

\* C1: whatever the callback does (return, raise a FakeTraitObject, raise a
\* std::exception, raise anything else), cpp_try ends by returning a handle:
\* a cpp_try call never ends by an exception, an exception in flight always
\* has an enclosing cpp_try whose handlers take it, and once cpp_try has
\* returned no exception is in flight.
C1_NoEscape ==
    /\ Ended => call.out = "returned" /\ pc = "run" /\ inflight = NoExc
    /\ pc = "unwind" => Len(stack) > 0 /\ ENABLED cpp_try_catch

\* The part of C1 the handlers do guarantee: what the callback raised never
\* leaves cpp_try; a cpp_try call that ends by an exception ends by the
\* std::bad_alloc of its own new-expression.
CallbackExceptionNeverLeaves ==
    Ended /\ call.out = "raised" =>
        inflight = BadAlloc /\ call.kind \in {"std", "other"}

\* C2: when the callback raises the handle h with cpp_throw_rust(h), cpp_try
\* stores true to *caught_rust and returns a handle with the p0 and the p1
\* of h, also when h was itself returned by an inner cpp_try and raised
\* again by that call's caller.
C2_CarrierIdentity ==
    Ended /\ call.by = "cpp_throw_rust" =>
        /\ call.out = "returned"
        /\ call.kind = "carrier"
        /\ call.flag = TRUE
        /\ call.ret.p0 = call.h.p0
        /\ call.ret.p1 = call.h.p1

C2_Witness ==
    /\ Returned
    /\ call.by = "cpp_throw_rust"
    /\ call.chain >= 2
    /\ call.h = [p0 |-> 0, p1 |-> 1]
    /\ call.flag0 = FALSE

\* C3: when the callback raises a std::exception carrying the message m
\* with cpp_throw_test_exception(m), cpp_try stores false to *caught_rust
\* and returns in p0 a StandardException box whose cpp_exception_what string
\* is m.
C3_MessageRoundTrip ==
    Ended /\ call.by = "cpp_throw_test_exception"
          /\ call.exc = "TestException" =>
        /\ call.out = "returned"
        /\ call.flag = FALSE
        /\ call.ret.p0 \in Live(heap)
        /\ BoxAt(call.ret).kind = "StandardException"
        /\ StrFromC(what(BoxAt(call.ret))) = StrFromC(call.buf)

\* The part of C3 that holds: false is stored in every case, and a cpp_try
\* that returns, returns a StandardException box whose string is m when a
\* TestException carrying m was raised, and "std::bad_alloc" when
\* cpp_throw_test_exception could not build the message.
MessageRoundTripWhenReturned ==
    Ended /\ call.by = "cpp_throw_test_exception" =>
        /\ call.flag = FALSE
        /\ call.out = "returned" =>
              /\ BoxAt(call.ret).kind = "StandardException"
              /\ StrFromC(what(BoxAt(call.ret))) =
                    IF call.exc = "TestException"
                    THEN StrFromC(call.buf) ELSE BadAllocWhat

\* C4: a cpp_try call allocates exactly one box when the callback raises a
\* native exception and none when it returns or raises a FakeTraitObject;
\* when the callback returns, the handle returned has p0 = p1 = 0.
C4_Allocations ==
    Ended =>
        /\ call.kind \in {"std", "other"} => call.nalloc = 1
        /\ call.kind \in {"normal", "carrier"} => call.nalloc = 0
        /\ call.kind = "normal" => call.ret = ZeroFto

\* The part of C4 that holds: the counts of every cpp_try that returns, and
\* no box is allocated by one that does not.
AllocationsWhenReturned ==
    Ended =>
        /\ call.out = "returned" /\ call.kind \in {"std", "other"} =>
              call.nalloc = 1
        /\ call.out = "raised" \/ call.kind \in {"normal", "carrier"} =>
              call.nalloc = 0
        /\ call.kind = "normal" => call.ret = ZeroFto

\* C5: whenever cpp_try returns a handle with p0 = p1 = 0, the callback
\* returned normally and *caught_rust holds the value it had before the
\* call.
C5_FlagOnlyWithHandle ==
    Returned /\ call.ret = ZeroFto =>
        call.kind = "normal" /\ call.flag = call.flag0

\* C6: cpp_rethrow on a RustExceptionAsCppException box ends in the abort of
\* the process: it neither returns nor raises, and nothing runs afterwards.
C6_RethrowRustAborts ==
    /\ call.fn = "cpp_rethrow"
         /\ BoxAt([p0 |-> call.box]).kind = "RustExceptionAsCppException" =>
            call.out = "aborted" /\ pc = "abort" /\ inflight = NoExc
    /\ pc = "abort" => ~ENABLED NextWrap

C6_Witness ==
    /\ pc = "abort"
    /\ call.fn = "cpp_rethrow"
    /\ Len(stack) = 2
    /\ \E a \in Live(heap) : heap[a].kind = "StandardException"

\* C7: cpp_rethrow on a StandardException or UnknownException box never
\* returns and raises the exception the box captured; the enclosing cpp_try
\* then stores false to *caught_rust and returns a new box of the same class
\* with the same cpp_exception_what string.
C7_RethrowRecapture ==
    /\ call.fn = "cpp_rethrow" /\ BoxAt([p0 |-> call.box]).kind \in NativeKinds =>
          /\ call.out = "raised"
          /\ pc = "unwind"
          /\ inflight = heap[call.box].ptr
    /\ Ended /\ call.by = "cpp_rethrow" =>
          /\ call.out = "returned"
          /\ call.flag = FALSE
          /\ call.box \in Live(heap)
          /\ call.ret.p0 \in Live(heap) \ {call.box}
          /\ BoxAt(call.ret).kind = heap[call.box].kind
          /\ BoxAt(call.ret).kind \in NativeKinds
          /\ what(BoxAt(call.ret)) = what(heap[call.box])

\* The part of C7 that holds: cpp_rethrow raises the captured exception,
\* false is stored, and an enclosing cpp_try that returns, returns a new box
\* of the same class and string.
RethrowRecaptureWhenReturned ==
    /\ call.fn = "cpp_rethrow" /\ BoxAt([p0 |-> call.box]).kind \in NativeKinds =>
          /\ call.out = "raised"
          /\ pc = "unwind"
          /\ inflight = heap[call.box].ptr
    /\ Ended /\ call.by = "cpp_rethrow" =>
          /\ call.flag = FALSE
          /\ call.box \in Live(heap)
          /\ call.out = "returned" =>
                /\ call.ret.p0 \in Live(heap) \ {call.box}
                /\ BoxAt(call.ret).kind = heap[call.box].kind
                /\ what(BoxAt(call.ret)) = what(heap[call.box])

\* C8: when the callback raises a value that is neither a FakeTraitObject
\* nor a std::exception, cpp_try stores false to *caught_rust and returns in
\* p0 an UnknownException box; cpp_exception_what of that box is the same
\* non-empty string "<unknown exception>" whatever was raised.
C8_UnknownPlaceholder ==
    Ended /\ call.by = "callback_throw" =>
        /\ call.out = "returned"
        /\ call.flag = FALSE
        /\ call.ret.p0 \in Live(heap)
        /\ BoxAt(call.ret).kind = "UnknownException"
        /\ what(BoxAt(call.ret)) = UnknownWhat
        /\ StrFromC(what(BoxAt(call.ret))) # <<>>

\* The part of C8 that holds: false is stored, and a cpp_try that returns,
\* returns an UnknownException box with the placeholder string.
UnknownPlaceholderWhenReturned ==
    Ended /\ call.by = "callback_throw" =>
        /\ call.flag = FALSE
        /\ call.out = "returned" =>
              /\ BoxAt(call.ret).kind = "UnknownException"
              /\ what(BoxAt(call.ret)) = UnknownWhat

\* C9: no step but cpp_exception_destroy(b) changes a live box b: after
\* cpp_exception_what and cpp_rethrow (and every other call) the box is
\* still allocated, with the class, the captured exception and the
\* cpp_exception_what string it had.
C9_BoxImmutable ==
    [][\A b \in Live(heap) :
          \/ /\ b \in Live(heap')
             /\ heap'[b] = heap[b]
             /\ what(heap'[b]) = what(heap[b])
          \/ call'.fn = "cpp_exception_destroy" /\ call'.box = b]_vars

C9_Witness ==
    /\ call.fn = "cpp_rethrow"
    /\ call.out = "raised"
    /\ call.box \in Live(heap)
    /\ heap[call.box].kind = "StandardException"
    /\ what(heap[call.box]) = <<1, 0>>

\* C10: every box the exported functions create is a StandardException or
\* an UnknownException, never a RustExceptionAsCppException, and the
\* assertion of get_exception_ptr is never reached.
C10_OnlyNativeBoxes ==
    /\ \A a \in Live(heap) : heap[a].kind \in NativeKinds
    /\ pc # "abort"

C10_Witness ==
    /\ Returned
    /\ call.kind = "carrier"
    /\ call.h # ZeroFto
    /\ Live(heap) = Addrs

====
